---- MODULE Spec2Model ----
(***************************************************************************)
(* Duty-roster scheduler (full variant: SchedulerSolver, senior variant:   *)
(* SeniorSchedulerSolver).  A solve call is a pipeline                     *)
(*   request -> context -> CP model -> solver outcome -> roles -> response *)
(* Users and slots are identified by their 1-based position in the request *)
(* (the code uses 0-based indices; ids are unique, so an id is a position).*)
(* Dates are day numbers.  A solver assignment x is a sequence over the    *)
(* slots of the set of users with x[u,s] = 1.                              *)
(***************************************************************************)
EXTENDS Integers, Sequences, FiniteSets, TLC

VARIABLES variant, declared, request, pc, ctx, cp, result, response

vars == <<variant, declared, request, pc, ctx, cp, result, response>>

(***************************************************************************)
(* Bounds of the explored requests.                                        *)
(***************************************************************************)
MaxUsers == 3
MaxSlots == 3
MaxSeats == 2
MaxDate == 2
MaxWide == 9

None == "None"
\* an optional integer: <<>> when absent (Python None), <<v>> otherwise
Absent == <<>>

(***************************************************************************)
(* Generic helpers.                                                        *)
(***************************************************************************)
RECURSIVE SumFn(_)
SumFn(f) ==
    IF DOMAIN f = {} THEN 0
    ELSE LET k == CHOOSE k \in DOMAIN f : TRUE
         IN f[k] + SumFn([j \in (DOMAIN f) \ {k} |-> f[j]])

MaxOf(S) == CHOOSE m \in S : \A n \in S : n <= m
MinOf(S) == CHOOSE m \in S : \A n \in S : m <= n
Max2(a, b) == IF a >= b THEN a ELSE b
Min2(a, b) == IF a <= b THEN a ELSE b
Abs(a) == IF a >= 0 THEN a ELSE 0 - a

\* Python floor division a // b for b > 0
FloorDiv(a, b) == a \div b

RangeOf(f) == IF DOMAIN f = {} THEN 0
              ELSE MaxOf({f[k] : k \in DOMAIN f}) - MinOf({f[k] : k \in DOMAIN f})

(***************************************************************************)
(* Settings (app/core/config.py) and senior constants.                     *)
(***************************************************************************)
penalty_unavailability == 200000
penalty_zero_shifts == 80000
penalty_consecutive_days == 7000
penalty_ideal_soft == 4000
penalty_history_fairness == 3000
penalty_fairness_duty_type == 50000
penalty_fairness_night == 50000
penalty_fairness_weekend_slots == 25000
penalty_weekly_clustering == 100
penalty_consecutive_nights == 100
penalty_two_shifts_same_day == 100
penalty_dislikes_weekend == 10
bonus_likes_night == 5
penalty_unavailability_fairness == 1000
penalty_unavailability_violation == 25000

\* The keys the published Settings struct defines.
SettingsKeys ==
    {"app_name", "app_version", "debug",
     "scheduler_time_limit_seconds", "scheduler_random_seed",
     "penalty_unavailability", "penalty_zero_shifts",
     "penalty_above_ideal_strong", "penalty_below_ideal_strong",
     "penalty_consecutive_days", "penalty_ideal_soft",
     "penalty_history_fairness", "penalty_fairness_duty_type",
     "penalty_fairness_night", "penalty_fairness_weekend_slots",
     "penalty_weekly_clustering", "penalty_consecutive_nights",
     "penalty_two_shifts_same_day", "penalty_dislikes_weekend",
     "bonus_likes_night", "penalty_unavailability_fairness",
     "penalty_unavailability_violation"}

\* The fields the SchedulerContext dataclass declares.
ContextFields ==
    {"users", "slots", "user_id_to_index", "slot_id_to_index",
     "unavailability_set", "date_to_slot_indices", "total_seats",
     "base_shifts", "all_seats", "seat_id_to_slot_index",
     "slot_unavailability_count", "blocked_count_per_category",
     "max_blocked_per_category"}

\* Design notes: the total-MinMax weight defaults to the duty-type fairness
\* weight, and total_blocked_count / max_total_blocked / type_ideals are
\* first-class context fields, when they are declared.
penalty_total_minmax == penalty_fairness_duty_type
PortedContextFields == {"total_blocked_count", "max_total_blocked", "type_ideals"}
PortedSettingsKeys == {"penalty_total_minmax"}

HasContextField(d, name) == name \in ContextFields \/ (d /\ name \in PortedContextFields)
HasSetting(d, name) == name \in SettingsKeys \/ (d /\ name \in PortedSettingsKeys)

PENALTY_UNAVAILABILITY == 200000
PENALTY_ABOVE_IDEAL_STRONG == 120000
PENALTY_CONSECUTIVE_3_DAYS == 7000
PENALTY_FAIRNESS_HISTORY == 3000
PENALTY_FAIRNESS_HALF_A == 1000
PENALTY_WEEKLY_CLUSTER == 100

(***************************************************************************)
(* Duty-type predicates (constraints.py).                                  *)
(***************************************************************************)
DutyTypes == {"A", "B", "C", "D", "E", "F"}
Categories == {"A", "B", "C", "Weekend"}

\* night duty without the weekend night
is_night_duty_weekday(duty_type) == duty_type \in {"C"}
is_night_duty(duty_type) == duty_type \in {"C", "F"}
is_morning_duty(duty_type) == duty_type \in {"A", "D"}
is_weekend_duty(duty_type) == duty_type \in {"D", "E", "F"}

_get_category(duty_type) == IF duty_type \in {"D", "E", "F"} THEN "Weekend" ELSE duty_type

get_week_index(d, start_date) == FloorDiv(d - start_date, 7)

(***************************************************************************)
(* Context (solver.py _build_context, senior_solver.py _build_context).    *)
(***************************************************************************)
UserIdx(c) == 1..Len(c.users)
SlotIdx(c) == 1..Len(c.slots)

required_count(slot) == Len(slot.seats)

SlotDates(slots) == {slots[s].date : s \in 1..Len(slots)}

\* date -> slot indices of that date (request order)
date_to_slot_indices(slots) ==
    [d \in SlotDates(slots) |-> {s \in 1..Len(slots) : slots[s].date = d}]

\* pairs naming an unknown user or slot are skipped
unavailability_set(req) ==
    {p \in req.unavailability :
        p[1] \in 1..Len(req.users) /\ p[2] \in 1..Len(req.slots)}

total_seats(slots) == SumFn([s \in 1..Len(slots) |-> required_count(slots[s])])

base_shifts(req) ==
    IF Len(req.users) > 0 THEN FloorDiv(total_seats(req.slots), Len(req.users)) ELSE 0

blocked_count_per_category(req) ==
    [u \in 1..Len(req.users) |->
        [cat \in Categories |->
            Cardinality({p \in unavailability_set(req) :
                p[1] = u /\ _get_category(req.slots[p[2]].duty_type) = cat})]]

max_blocked_per_category(req) ==
    [cat \in Categories |->
        MaxOf({0} \cup {blocked_count_per_category(req)[u][cat] : u \in 1..Len(req.users)})]

total_blocked_count(req) ==
    [u \in 1..Len(req.users) |->
        SumFn([cat \in Categories |-> blocked_count_per_category(req)[u][cat]])]

max_total_blocked(req) ==
    MaxOf({0} \cup {total_blocked_count(req)[u] : u \in 1..Len(req.users)})

\* SchedulerSolver._build_context: "fault" when an undeclared field is used
SchedulerContext(req, d) ==
    IF Len(req.users) > 0 /\ ~HasContextField(d, "total_blocked_count")
    THEN [fault |-> "AttributeError: total_blocked_count"]
    ELSE IF Len(req.users) > 0 /\ ~HasContextField(d, "type_ideals")
    THEN [fault |-> "AttributeError: type_ideals"]
    ELSE [fault |-> None,
          users |-> req.users,
          slots |-> req.slots,
          unavailability_set |-> unavailability_set(req),
          date_to_slot_indices |-> date_to_slot_indices(req.slots),
          total_seats |-> total_seats(req.slots),
          base_shifts |-> base_shifts(req),
          blocked_count_per_category |-> blocked_count_per_category(req),
          max_blocked_per_category |-> max_blocked_per_category(req),
          total_blocked_count |-> total_blocked_count(req),
          max_total_blocked |-> max_total_blocked(req)]

\* SeniorSchedulerSolver._build_context
SeniorContext(req) ==
    [fault |-> None,
     users |-> [u \in 1..Len(req.users) |->
                  [history_total |-> req.users[u].history_total,
                   history_a |-> req.users[u].history_a]],
     slots |-> req.slots,
     unavailability_set |-> unavailability_set(req),
     date_to_slot_indices |-> date_to_slot_indices(req.slots),
     total_seats |-> total_seats(req.slots),
     base_shifts |-> base_shifts(req),
     period_start |-> req.period_start]

(***************************************************************************)
(* Decision variables: x[s] is the set of users u with x[u,s] = 1.         *)
(***************************************************************************)
X(x, u, s) == IF u \in x[s] THEN 1 ELSE 0

\* value of the count variable total_u
user_shift_counts(c, x) ==
    [u \in UserIdx(c) |-> Cardinality({s \in SlotIdx(c) : u \in x[s]})]

\* number of slots of the set S that user u holds
CountIn(x, u, S) == Cardinality({s \in S : u \in x[s]})

(***************************************************************************)
(* Hard constraints (constraints.py HardConstraintBuilder).                *)
(***************************************************************************)
\* coverage that takes every slot for a single seat
coverage_single_seat(c, s, us) == Cardinality(us) = 1

\* coverage of one slot: sum over users of x[u,s] = required_count
add_coverage_constraint(c, s, us) == Cardinality(us) = required_count(c.slots[s])

\* the daily cap set one too high
max_three_shifts_per_day(c, x) ==
    \A d \in DOMAIN c.date_to_slot_indices :
        \A u \in UserIdx(c) : CountIn(x, u, c.date_to_slot_indices[d]) <= 3

add_max_two_shifts_per_day_constraint(c, x) ==
    \A d \in DOMAIN c.date_to_slot_indices :
        LET slot_indices == c.date_to_slot_indices[d]
        IN  Cardinality(slot_indices) <= 2
            \/ \A u \in UserIdx(c) : CountIn(x, u, slot_indices) <= 2

add_forbidden_transition_constraint(c, x) ==
    \A d \in DOMAIN c.date_to_slot_indices :
        LET slot_indices == c.date_to_slot_indices[d]
            night_slots == {s \in slot_indices : is_night_duty(c.slots[s].duty_type)}
            morning_slots == {s \in slot_indices : is_morning_duty(c.slots[s].duty_type)}
        IN  \A u \in UserIdx(c) : \A n \in night_slots : \A m \in morning_slots :
                X(x, u, n) + X(x, u, m) <= 1

\* the band without its lower limit
max_shifts_upper_only(c, x, max_allowed) ==
    \A u \in UserIdx(c) : user_shift_counts(c, x)[u] <= max_allowed

add_max_shifts_constraint(c, x, max_allowed) ==
    LET min_allowed == Max2(0, max_allowed - 4)
    IN  \A u \in UserIdx(c) :
            /\ user_shift_counts(c, x)[u] <= max_allowed
            /\ user_shift_counts(c, x)[u] >= min_allowed

add_all_hard_constraints(c, x, max_shifts_allowed) ==
    /\ \A s \in SlotIdx(c) : add_coverage_constraint(c, s, x[s])
    /\ add_max_two_shifts_per_day_constraint(c, x)
    /\ add_forbidden_transition_constraint(c, x)
    /\ add_max_shifts_constraint(c, x, max_shifts_allowed)

\* senior_solver.py: coverage, base+2 upper limit, at most 2 segments a day
SeniorCoverage(c, s, us) == Cardinality(us) = required_count(c.slots[s])

SeniorMaxShifts(c, x, max_allowed) ==
    \A u \in UserIdx(c) : user_shift_counts(c, x)[u] <= max_allowed

SeniorMaxTwoPerDay(c, x) ==
    \A d \in DOMAIN c.date_to_slot_indices :
        \A u \in UserIdx(c) : CountIn(x, u, c.date_to_slot_indices[d]) <= 2

SeniorHardConstraints(c, x, max_allowed) ==
    /\ \A s \in SlotIdx(c) : SeniorCoverage(c, s, x[s])
    /\ SeniorMaxShifts(c, x, max_allowed)
    /\ SeniorMaxTwoPerDay(c, x)

\* All sequences that take their s-th element from choices[s]: the values
\* of the boolean variables once each slot's own variables are restricted.
RECURSIVE Product(_)
Product(choices) ==
    IF choices = <<>> THEN {<<>>}
    ELSE {Append(p, v) : p \in Product(SubSeq(choices, 1, Len(choices) - 1)),
                         v \in choices[Len(choices)]}

(***************************************************************************)
(* Soft penalties of the full variant (score.py PenaltyBuilder).  Each     *)
(* operator is the value its objective terms take for the assignment x,    *)
(* the auxiliary variables being fixed by their defining equalities.       *)
(***************************************************************************)
_compute_ideal_current(c) ==
    [u \in UserIdx(c) |->
        LET base == c.base_shifts
            fark_long == c.users[u].history_total - c.users[u].history_expected[1]
            ideal_float == base - fark_long
            min_ideal == Max2(0, base - 2)
            max_ideal == base + 2
        IN  Max2(min_ideal, Min2(max_ideal, ideal_float))]

\* weight of one violated (user, slot) unavailability pair
fixed_weight(c, user_idx, slot_idx) ==
    LET category == _get_category(c.slots[slot_idx].duty_type)
        user_cat_blocked == c.blocked_count_per_category[user_idx][category]
        max_cat_blocked == c.max_blocked_per_category[category]
        user_total_blocked == c.total_blocked_count[user_idx]
        max_total == c.max_total_blocked
        cat_extra == (max_cat_blocked - user_cat_blocked) * penalty_unavailability_fairness
        total_extra == (max_total - user_total_blocked)
                          * FloorDiv(penalty_unavailability_fairness, 10)
    IN  penalty_unavailability + cat_extra + total_extra

\* value of viol_cnt_u
user_violation_counts(c, x) ==
    [u \in UserIdx(c) |->
        Cardinality({p \in c.unavailability_set : p[1] = u /\ u \in x[p[2]]})]

_add_unavailability_penalty(c, x) ==
    LET violated == {p \in c.unavailability_set : p[1] \in x[p[2]]}
    IN  SumFn([p \in violated |-> fixed_weight(c, p[1], p[2])])
        + SumFn([u \in UserIdx(c) |->
              Max2(user_violation_counts(c, x)[u] - 1, 0) * penalty_unavailability_violation])

\* user u holds a slot dated d, of whatever type
day_has_any_type(c, x, u, t, d) ==
    \E s \in SlotIdx(c) : c.slots[s].date = d /\ u \in x[s]

\* user u holds a slot of type t dated d
day_has_type(c, x, u, t, d) ==
    \E s \in SlotIdx(c) :
        c.slots[s].date = d /\ c.slots[s].duty_type = t /\ u \in x[s]

\* windows: three entries of the sorted slot dates that are consecutive days
ConsecutiveWindows(c) ==
    {d \in DOMAIN c.date_to_slot_indices :
        d + 1 \in DOMAIN c.date_to_slot_indices /\ d + 2 \in DOMAIN c.date_to_slot_indices}

_add_consecutive_days_penalty(c, x) ==
    penalty_consecutive_days *
        Cardinality({w \in DutyTypes \X UserIdx(c) \X ConsecutiveWindows(c) :
            /\ day_has_type(c, x, w[2], w[1], w[3])
            /\ day_has_type(c, x, w[2], w[1], w[3] + 1)
            /\ day_has_type(c, x, w[2], w[1], w[3] + 2)})

_add_total_minmax_penalty(c, x) ==
    IF Len(c.users) < 2 THEN 0
    ELSE RangeOf(user_shift_counts(c, x)) * penalty_total_minmax

\* slots of one fairness group
TypeSlots(c, type_name) ==
    {s \in SlotIdx(c) :
        IF type_name = "WEEKEND" THEN is_weekend_duty(c.slots[s].duty_type)
        ELSE c.slots[s].duty_type = type_name}

\* range (max - min over the users) of the number of slots of S held
RangeIn(c, x, S) == RangeOf([u \in UserIdx(c) |-> CountIn(x, u, S)])

_add_duty_type_fairness_penalty(c, x) ==
    SumFn([type_name \in {"A", "B", "C", "WEEKEND"} |->
        IF TypeSlots(c, type_name) = {} THEN 0
        ELSE RangeIn(c, x, TypeSlots(c, type_name)) * penalty_fairness_duty_type])

_add_weekend_slot_fairness_penalty(c, x) ==
    IF Len(c.users) < 2 THEN 0
    ELSE SumFn([duty_type \in {"D", "E", "F"} |->
            IF TypeSlots(c, duty_type) = {} THEN 0
            ELSE RangeIn(c, x, TypeSlots(c, duty_type)) * penalty_fairness_weekend_slots])

_add_night_fairness_penalty(c, x) ==
    LET night_slots == {s \in SlotIdx(c) : is_night_duty(c.slots[s].duty_type)}
    IN  IF Len(c.users) < 2 \/ night_slots = {} THEN 0
        ELSE RangeIn(c, x, night_slots) * penalty_fairness_night

_add_ideal_soft_penalty(c, x) ==
    SumFn([u \in UserIdx(c) |->
        Abs(user_shift_counts(c, x)[u] - _compute_ideal_current(c)[u]) * penalty_ideal_soft])

_add_history_fairness_penalty(c, x) ==
    IF Len(c.users) < 2 THEN 0
    ELSE SumFn([u \in UserIdx(c) |->
            Abs(user_shift_counts(c, x)[u] - _compute_ideal_current(c)[u])
                * penalty_history_fairness])

\* week buckets are counted from the earliest slot date
week_slots(c) ==
    LET start_date == MinOf(DOMAIN c.date_to_slot_indices)
        weeks == {get_week_index(c.slots[s].date, start_date) : s \in SlotIdx(c)}
    IN  [w \in weeks |->
            {s \in SlotIdx(c) : get_week_index(c.slots[s].date, start_date) = w}]

_add_weekly_clustering_penalty(c, x) ==
    SumFn([p \in UserIdx(c) \X DOMAIN week_slots(c) |->
        IF Cardinality(week_slots(c)[p[2]]) < 3 THEN 0
        ELSE Max2(CountIn(x, p[1], week_slots(c)[p[2]]) - 2, 0) * penalty_weekly_clustering])

NightSlotsOn(c, d) ==
    {s \in c.date_to_slot_indices[d] : is_night_duty(c.slots[s].duty_type)}

_add_consecutive_nights_penalty(c, x) ==
    penalty_consecutive_nights *
        Cardinality({p \in UserIdx(c) \X DOMAIN c.date_to_slot_indices :
            /\ p[2] + 1 \in DOMAIN c.date_to_slot_indices
            /\ CountIn(x, p[1], NightSlotsOn(c, p[2])) >= 1
            /\ CountIn(x, p[1], NightSlotsOn(c, p[2] + 1)) >= 1})

_add_two_shifts_same_day_penalty(c, x) ==
    penalty_two_shifts_same_day *
        Cardinality({p \in UserIdx(c) \X DOMAIN c.date_to_slot_indices :
            /\ Cardinality(c.date_to_slot_indices[p[2]]) >= 2
            /\ CountIn(x, p[1], c.date_to_slot_indices[p[2]]) = 2})

\* no preference term at all
no_preference_penalties(c, x) == 0

_add_preference_penalties(c, x) ==
    SumFn([p \in UserIdx(c) \X SlotIdx(c) |->
        X(x, p[1], p[2]) *
          ((IF c.users[p[1]].dislikes_weekend /\ is_weekend_duty(c.slots[p[2]].duty_type)
            THEN penalty_dislikes_weekend ELSE 0)
           - (IF c.users[p[1]].likes_night /\ is_night_duty(c.slots[p[2]].duty_type)
              THEN bonus_likes_night ELSE 0))])

\* PenaltyBuilder.build_all_penalties followed by get_total_objective
\* Level 1 (80,000): one weight for every user whose count is 0; the builder
\* defines this term and build_all_penalties does not call it
_add_zero_shifts_penalty(c, x) ==
    penalty_zero_shifts * Cardinality({u \in UserIdx(c) : user_shift_counts(c, x)[u] = 0})

\* the comfort and preference terms only, no fairness term
penalties_without_fairness(c, x) ==
    _add_unavailability_penalty(c, x)
    + _add_consecutive_days_penalty(c, x)
    + _add_weekly_clustering_penalty(c, x)
    + _add_consecutive_nights_penalty(c, x)
    + _add_two_shifts_same_day_penalty(c, x)
    + _add_preference_penalties(c, x)

build_all_penalties(c, x) ==
    _add_unavailability_penalty(c, x)
    + _add_consecutive_days_penalty(c, x)
    + _add_total_minmax_penalty(c, x)
    + _add_duty_type_fairness_penalty(c, x)
    + _add_weekend_slot_fairness_penalty(c, x)
    + _add_night_fairness_penalty(c, x)
    + _add_ideal_soft_penalty(c, x)
    + _add_history_fairness_penalty(c, x)
    + _add_weekly_clustering_penalty(c, x)
    + _add_consecutive_nights_penalty(c, x)
    + _add_two_shifts_same_day_penalty(c, x)
    + _add_preference_penalties(c, x)

\* The declared domains of the auxiliary variables admit the values that x
\* forces on them: diff_soft and hist_diff range over -len(slots)..len(slots).
PenaltyDomainsAdmit(c, x) ==
    \A u \in UserIdx(c) :
        Abs(user_shift_counts(c, x)[u] - _compute_ideal_current(c)[u]) <= Len(c.slots)

\* An attribute or operand that penalty building reads without having it.
PenaltyFault(c, d) ==
    IF \E u \in UserIdx(c) : c.users[u].history_expected = Absent
    THEN "TypeError: history_expected is None"
    ELSE IF c.unavailability_set # {} /\ ~HasContextField(d, "total_blocked_count")
    THEN "AttributeError: total_blocked_count"
    ELSE IF ~HasSetting(d, "penalty_total_minmax")
    THEN "AttributeError: penalty_total_minmax"
    ELSE None

(***************************************************************************)
(* Soft penalties of the senior variant (senior_solver.py).                *)
(***************************************************************************)
SeniorUnavailabilityPenalty(c, x) ==
    PENALTY_UNAVAILABILITY * Cardinality({p \in c.unavailability_set : p[1] \in x[p[2]]})

SeniorExcessPenalty(c, x) ==
    SumFn([u \in UserIdx(c) |->
        Max2(user_shift_counts(c, x)[u] - (c.base_shifts + 1), 0) * PENALTY_ABOVE_IDEAL_STRONG])

SeniorConsecutiveDaysPenalty(c, x) ==
    PENALTY_CONSECUTIVE_3_DAYS *
        Cardinality({p \in UserIdx(c) \X ConsecutiveWindows(c) :
            \A k \in 0..2 : CountIn(x, p[1], c.date_to_slot_indices[p[2] + k]) >= 1})

SeniorFairnessPenalty(c, x) ==
    IF Len(c.users) <= 1 THEN 0
    ELSE LET ideal == FloorDiv(c.total_seats, Len(c.users))
         IN  SumFn([u \in UserIdx(c) |->
                Abs(user_shift_counts(c, x)[u] - ideal) * PENALTY_FAIRNESS_HALF_A])

avg_history(c) ==
    FloorDiv(SumFn([u \in UserIdx(c) |-> c.users[u].history_a]), Len(c.users))

SeniorHistoryPenalty(c, x) ==
    IF Len(c.users) <= 1 THEN 0
    ELSE SumFn([u \in UserIdx(c) |->
            Abs(c.users[u].history_a + user_shift_counts(c, x)[u] - avg_history(c))
                * PENALTY_FAIRNESS_HISTORY])

\* week buckets are counted from the period start
senior_week_slots(c) ==
    LET weeks == {get_week_index(c.slots[s].date, c.period_start) : s \in SlotIdx(c)}
    IN  [w \in weeks |->
            {s \in SlotIdx(c) : get_week_index(c.slots[s].date, c.period_start) = w}]

SeniorWeeklyClusteringPenalty(c, x) ==
    SumFn([p \in UserIdx(c) \X DOMAIN senior_week_slots(c) |->
        Max2(CountIn(x, p[1], senior_week_slots(c)[p[2]]) - 2, 0) * PENALTY_WEEKLY_CLUSTER])

SeniorObjective(c, x) ==
    SeniorUnavailabilityPenalty(c, x)
    + SeniorExcessPenalty(c, x)
    + SeniorConsecutiveDaysPenalty(c, x)
    + SeniorFairnessPenalty(c, x)
    + SeniorHistoryPenalty(c, x)
    + SeniorWeeklyClusteringPenalty(c, x)

\* domains: excess in 0..1, fair_diff in -max_allowed..max_allowed,
\* longterm in 0..10000, hist_diff in -1000..1000
SeniorDomainsAdmit(c, x) ==
    LET max_allowed == c.base_shifts + 2
    IN  \A u \in UserIdx(c) :
          LET cnt == user_shift_counts(c, x)[u]
          IN  /\ Max2(cnt - (c.base_shifts + 1), 0) <= max_allowed - (c.base_shifts + 1)
              /\ (Len(c.users) > 1 =>
                    /\ Abs(cnt - FloorDiv(c.total_seats, Len(c.users))) <= max_allowed
                    /\ c.users[u].history_a + cnt <= 10000
                    /\ Abs(c.users[u].history_a + cnt - avg_history(c)) <= 1000)

(***************************************************************************)
(* The CP model and the solver outcome (_solve_with_cpsat).                *)
(***************************************************************************)
\* Solutions of the full-variant model with their objective values.
FullSolutions(c) ==
    LET choices == [s \in SlotIdx(c) |->
                      {v \in SUBSET UserIdx(c) : add_coverage_constraint(c, s, v)}]
    IN  {[x |-> x, obj |-> build_all_penalties(c, x)] :
            x \in {y \in Product(choices) :
                     /\ add_all_hard_constraints(c, y, c.base_shifts + 2)
                     /\ PenaltyDomainsAdmit(c, y)}}

SeniorSolutions(c) ==
    LET choices == [s \in SlotIdx(c) |->
                      {v \in SUBSET UserIdx(c) : SeniorCoverage(c, s, v)}]
    IN  {[x |-> x, obj |-> SeniorObjective(c, x)] :
            x \in {y \in Product(choices) :
                     /\ SeniorHardConstraints(c, y, c.base_shifts + 2)
                     /\ SeniorDomainsAdmit(c, y)}}

IsOptimal(sols, sol) == \A other \in sols : sol.obj <= other.obj

SuccessStatuses == {"OPTIMAL", "FEASIBLE"}

(***************************************************************************)
(* Result extraction.                                                      *)
(***************************************************************************)
RECURSIVE SortedSeq(_)
SortedSeq(S) ==
    IF S = {} THEN <<>> ELSE <<MinOf(S)>> \o SortedSeq(S \ {MinOf(S)})

RECURSIVE Flatten(_)
Flatten(ss) == IF ss = <<>> THEN <<>> ELSE Head(ss) \o Flatten(Tail(ss))

\* the seat index never advanced: every user on the first seat
seat_id_first(slot_id, slot, seat_idx) == slot.seats[1].id

\* seat bound to the seat_idx-th user of a slot (1-based here)
seat_id(slot_id, slot, seat_idx) ==
    IF seat_idx <= Len(slot.seats) THEN slot.seats[seat_idx].id
    ELSE <<"synthetic", slot_id, seat_idx - 1>>

ExtractAssignments(c, x) ==
    Flatten([s \in SlotIdx(c) |->
        LET slot_users == SortedSeq(x[s])
        IN  [i \in 1..Len(slot_users) |->
                [slot_id |-> s,
                 seat_id |-> seat_id(s, c.slots[s], i),
                 user_id |-> slot_users[i],
                 seat_role |-> None]]])

\* every assignee an operator
senior_all_operators(total_people) == <<0, total_people>>

get_senior_desk_operator_count(total_people) ==
    IF total_people <= 0 THEN <<0, 0>>
    ELSE IF total_people = 1 THEN <<0, 1>>
    ELSE <<total_people - 1, 1>>

SeniorExtractAssignments(c, x) ==
    Flatten([s \in SlotIdx(c) |->
        LET slot_users == SortedSeq(x[s])
            desk_count == get_senior_desk_operator_count(Len(slot_users))[1]
        IN  [i \in 1..Len(slot_users) |->
                [slot_id |-> s,
                 seat_id |-> seat_id(s, c.slots[s], i),
                 user_id |-> slot_users[i],
                 seat_role |-> IF i - 1 < desk_count THEN "DESK" ELSE "OPERATOR"]]])

\* users whose assignment dates contain three consecutive days
_count_consecutive_3_day_users(c, assignments) ==
    LET dates(u) == {c.slots[assignments[i].slot_id].date :
                        i \in {j \in 1..Len(assignments) : assignments[j].user_id = u}}
    IN  Cardinality({u \in UserIdx(c) :
            \E d \in dates(u) : d + 1 \in dates(u) /\ d + 2 \in dates(u)})

\* statistics and warnings of a solved model
\* statistics with the minimum taken over the users that hold an assignment
solved_result_min_over_assigned(c, x, status_name, assignments) ==
    LET user_counts == user_shift_counts(c, x)
        safe_limit == c.base_shifts + 1
        users_at_base_plus_2 == Cardinality({u \in UserIdx(c) : user_counts[u] > safe_limit})
        unavail_violations == Cardinality({p \in c.unavailability_set : p[1] \in x[p[2]]})
        consec_3_users == _count_consecutive_3_day_users(c, assignments)
    IN  [assignments |-> assignments,
         status |-> status_name,
         warnings |->
            (IF unavail_violations > 0
               THEN <<[kind |-> "unavailability", n |-> unavail_violations, status |-> None]>> ELSE <<>>)
            \o (IF users_at_base_plus_2 > 0
               THEN <<[kind |-> "base_plus_2", n |-> users_at_base_plus_2, status |-> None]>> ELSE <<>>)
            \o (IF consec_3_users > 0
               THEN <<[kind |-> "consecutive_3", n |-> consec_3_users, status |-> None]>> ELSE <<>>),
         base |-> c.base_shifts,
         max_shifts |-> MaxOf({user_counts[u] : u \in UserIdx(c)}),
         min_shifts |-> MinOf({user_counts[u] : u \in {v \in UserIdx(c) : user_counts[v] > 0}}),
         users_at_base_plus_2 |-> users_at_base_plus_2,
         unavailability_violations |-> unavail_violations]

SolvedResult(c, x, status_name, assignments) ==
    LET user_counts == user_shift_counts(c, x)
        safe_limit == c.base_shifts + 1
        users_at_base_plus_2 == Cardinality({u \in UserIdx(c) : user_counts[u] > safe_limit})
        unavail_violations == Cardinality({p \in c.unavailability_set : p[1] \in x[p[2]]})
        consec_3_users == _count_consecutive_3_day_users(c, assignments)
    IN  [assignments |-> assignments,
         status |-> status_name,
         warnings |->
            (IF unavail_violations > 0
               THEN <<[kind |-> "unavailability", n |-> unavail_violations, status |-> None]>> ELSE <<>>)
            \o (IF users_at_base_plus_2 > 0
               THEN <<[kind |-> "base_plus_2", n |-> users_at_base_plus_2, status |-> None]>> ELSE <<>>)
            \o (IF consec_3_users > 0
               THEN <<[kind |-> "consecutive_3", n |-> consec_3_users, status |-> None]>> ELSE <<>>),
         base |-> c.base_shifts,
         max_shifts |-> MaxOf({user_counts[u] : u \in UserIdx(c)}),
         min_shifts |-> MinOf({user_counts[u] : u \in UserIdx(c)}),
         users_at_base_plus_2 |-> users_at_base_plus_2,
         unavailability_violations |-> unavail_violations]

\* an unsolved result that records no warning
unsolved_without_warning(c, status_name) ==
    [assignments |-> <<>>,
     status |-> status_name,
     warnings |-> <<>>,
     base |-> c.base_shifts,
     max_shifts |-> 0,
     min_shifts |-> 0,
     users_at_base_plus_2 |-> 0,
     unavailability_violations |-> 0]

UnsolvedResult(c, status_name) ==
    [assignments |-> <<>>,
     status |-> status_name,
     warnings |-> <<[kind |-> "status", n |-> 0, status |-> status_name]>>,
     base |-> c.base_shifts,
     max_shifts |-> 0,
     min_shifts |-> 0,
     users_at_base_plus_2 |-> 0,
     unavailability_violations |-> 0]

TrivialResult ==
    [assignments |-> <<>>,
     status |-> "TRIVIAL",
     warnings |-> <<[kind |-> "trivial", n |-> 0, status |-> None]>>,
     base |-> 0,
     max_shifts |-> 0,
     min_shifts |-> 0,
     users_at_base_plus_2 |-> 0,
     unavailability_violations |-> 0]

(***************************************************************************)
(* Role assigner of the full variant (_assign_desk_operator_roles).        *)
(***************************************************************************)
\* the split by halves for every count
desk_operator_by_halves(count) ==
    IF count <= 0 THEN <<0, 0>>
    ELSE IF count = 1 THEN <<0, 1>>
    ELSE <<FloorDiv(count, 2), count - FloorDiv(count, 2)>>

calculate_desk_operator_distribution(count) ==
    IF count <= 0 THEN <<0, 0>>
    ELSE IF count = 1 THEN <<0, 1>>
    ELSE IF count = 2 THEN <<1, 1>>
    ELSE IF count = 3 THEN <<1, 2>>
    ELSE IF count = 4 THEN <<2, 2>>
    ELSE IF count = 5 THEN <<3, 2>>
    ELSE IF count = 6 THEN <<3, 3>>
    ELSE IF count = 7 THEN <<4, 3>>
    ELSE <<FloorDiv(count + 1, 2), count - FloorDiv(count + 1, 2)>>

\* InternalUser.history_desk / history_operator keep their default:
\* _build_context does not fill them
history_desk(c, u) == 0
history_operator(c, u) == 0

\* a priority that ignores the counts: ties everywhere
desk_priority_constant(c, current_desk, u) == <<0, 0>>

desk_priority(c, current_desk, u) == <<history_desk(c, u) + current_desk[u], current_desk[u]>>
operator_priority(c, current_operator, u) ==
    <<history_operator(c, u) + current_operator[u], current_operator[u]>>

TupleLess(a, b) == a[1] < b[1] \/ (a[1] = b[1] /\ a[2] < b[2])

\* The first `needed` elements of the stable sort of the positions P by key.
FirstSorted(P, key, needed) ==
    {i \in P :
        Cardinality({j \in P : TupleLess(key[j], key[i])
                                 \/ (key[j] = key[i] /\ j < i)}) < needed}

\* Roles for the assignments of one A slot; P = positions of its assignments.
AssignSlotRoles(c, assignments, P, current_desk, current_operator) ==
    LET dist == calculate_desk_operator_distribution(Cardinality(P))
        dkey == [i \in P |-> desk_priority(c, current_desk, assignments[i].user_id)]
        desk == FirstSorted(P, dkey, dist[1])
        remaining == {i \in P \ desk : assignments[i].seat_role = None}
        okey == [i \in remaining |->
                    operator_priority(c, current_operator, assignments[i].user_id)]
        oper == FirstSorted(remaining, okey, dist[2])
    IN  [assignments |->
            [i \in 1..Len(assignments) |->
                IF i \in desk THEN [assignments[i] EXCEPT !.seat_role = "DESK"]
                ELSE IF i \in oper THEN [assignments[i] EXCEPT !.seat_role = "OPERATOR"]
                ELSE assignments[i]],
         current_desk |->
            [u \in DOMAIN current_desk |->
                current_desk[u] + Cardinality({i \in desk : assignments[i].user_id = u})],
         current_operator |->
            [u \in DOMAIN current_operator |->
                current_operator[u] + Cardinality({i \in oper : assignments[i].user_id = u})]]

RECURSIVE AssignFrom(_, _, _)
AssignFrom(c, st, todo) ==
    IF todo = <<>> THEN st.assignments
    ELSE LET P == {i \in 1..Len(st.assignments) : st.assignments[i].slot_id = Head(todo)}
         IN  AssignFrom(c,
                 AssignSlotRoles(c, st.assignments, P, st.current_desk, st.current_operator),
                 Tail(todo))

\* A slots that have assignments, in the order of their first assignment
_assign_desk_operator_roles(c, assignments) ==
    LET a_slots == {assignments[i].slot_id : i \in
                      {j \in 1..Len(assignments) :
                          c.slots[assignments[j].slot_id].duty_type = "A"}}
    IN  AssignFrom(c,
            [assignments |-> assignments,
             current_desk |-> [u \in UserIdx(c) |-> 0],
             current_operator |-> [u \in UserIdx(c) |-> 0]],
            SortedSeq(a_slots))

(***************************************************************************)
(* Response builder (_build_response of both variants).                    *)
(***************************************************************************)
\* a response that marks every assignment beyond base as extra
build_response_extra_above_base(res, c) ==
    LET safe_limit == c.base_shifts
        order(i) == Cardinality({j \in 1..i : res.assignments[j].user_id
                                                = res.assignments[i].user_id})
    IN  [assignments |->
            [i \in 1..Len(res.assignments) |->
                [slotId |-> res.assignments[i].slot_id,
                 seatId |-> res.assignments[i].seat_id,
                 userId |-> res.assignments[i].user_id,
                 seatRole |-> res.assignments[i].seat_role,
                 isExtra |-> order(i) > safe_limit]],
         meta |->
            [base |-> res.base,
             maxShifts |-> res.max_shifts,
             minShifts |-> res.min_shifts,
             totalSlots |-> Len(c.slots),
             totalAssignments |-> Len(res.assignments),
             usersAtBasePlus2 |-> res.users_at_base_plus_2,
             unavailabilityViolations |-> res.unavailability_violations,
             warnings |-> res.warnings,
             solverStatus |-> res.status]]

_build_response(res, c) ==
    LET safe_limit == c.base_shifts + 1
        order(i) == Cardinality({j \in 1..i : res.assignments[j].user_id
                                                = res.assignments[i].user_id})
    IN  [assignments |->
            [i \in 1..Len(res.assignments) |->
                [slotId |-> res.assignments[i].slot_id,
                 seatId |-> res.assignments[i].seat_id,
                 userId |-> res.assignments[i].user_id,
                 seatRole |-> res.assignments[i].seat_role,
                 isExtra |-> order(i) > safe_limit]],
         meta |->
            [base |-> res.base,
             maxShifts |-> res.max_shifts,
             minShifts |-> res.min_shifts,
             totalSlots |-> Len(c.slots),
             totalAssignments |-> Len(res.assignments),
             usersAtBasePlus2 |-> res.users_at_base_plus_2,
             unavailabilityViolations |-> res.unavailability_violations,
             warnings |-> res.warnings,
             solverStatus |-> res.status]]

(***************************************************************************)
(* Requests.                                                               *)
(***************************************************************************)
\* a User with every optional field left to its default: expectedTotal is
\* None
DefaultUser ==
    [likes_night |-> FALSE, dislikes_weekend |-> FALSE,
     history_total |-> 0, history_expected |-> Absent, history_a |-> 0]

Users(n) == [u \in 1..n |-> DefaultUser]

\* a user new to the rota whose history gives expectedTotal = 0 explicitly
NewUser == [DefaultUser EXCEPT !.history_expected = <<0>>]

NewUsers(n) == [u \in 1..n |-> NewUser]

\* a SeniorUser with every optional field left to its default
DefaultSeniorUser ==
    [likes_morning |-> FALSE, likes_evening |-> FALSE,
     history_total |-> 0, history_a |-> 0]

SeniorUsers(n) == [u \in 1..n |-> DefaultSeniorUser]

SeatsOf(s, k) == [i \in 1..k |-> [id |-> <<"seat", s, i>>, role |-> None]]

\* slots of the full variant from a sequence of <<date, duty type, seats>>
MkSlots(kinds) ==
    [s \in 1..Len(kinds) |->
        [date |-> kinds[s][1], duty_type |-> kinds[s][2], seats |-> SeatsOf(s, kinds[s][3])]]

\* slots of the senior variant from a sequence of <<date, segment, seats>>
MkSeniorSlots(kinds) ==
    [s \in 1..Len(kinds) |->
        [date |-> kinds[s][1], segment |-> kinds[s][2], seats |-> SeatsOf(s, kinds[s][3])]]

MkRequest(users, slots, unavailability) ==
    [users |-> users, slots |-> slots, unavailability |-> unavailability, period_start |-> 1]

\* nobody, user 1 for slot 1, everybody for slot 1, user 1 for every slot
UnavailPatterns(n, len) ==
    {{}, {<<1, 1>>}, {<<u, 1>> : u \in 1..n}, {<<1, s>> : s \in 1..len}}

Segments == {"MORNING", "EVENING"}

\* two single-seat slots of any two duty types, same or different date
PairRequests ==
    {MkRequest(NewUsers(n), MkSlots(<<<<1, t[1], 1>>, <<d, t[2], 1>>>>), un) :
        n \in 1..MaxUsers, t \in DutyTypes \X DutyTypes, d \in 1..MaxDate,
        un \in UnavailPatterns(MaxUsers, 2)}

\* two users, two single-seat slots, every unavailability set
ClosedRequests ==
    {MkRequest(NewUsers(2), MkSlots(<<<<1, t[1], 1>>, <<d, t[2], 1>>>>), un) :
        t \in {"A", "C", "D"} \X {"A", "C"}, d \in 1..MaxDate,
        un \in SUBSET ((1..2) \X (1..2))}

\* dates of MaxSlots slots: one day, consecutive days, the first two on one day
DatePatterns ==
    {[s \in 1..MaxSlots |-> 1], [s \in 1..MaxSlots |-> s],
     [s \in 1..MaxSlots |-> Max2(1, s - 1)]}

\* kinds of MaxSlots slots: every choice for the first three slots, the
\* slots after them of the third slot's kind
KindPatterns(kinds) ==
    {[s \in 1..MaxSlots |-> p[Min2(s, 3)]] : p \in [1..3 -> kinds]}

\* MaxSlots single-seat slots
TripleRequests ==
    {MkRequest(NewUsers(n), MkSlots([s \in 1..MaxSlots |-> <<ds[s], ts[s], 1>>]), un) :
        n \in 2..MaxUsers,
        ds \in DatePatterns,
        ts \in KindPatterns({"A", "B"}),
        un \in UnavailPatterns(MaxUsers, MaxSlots)}

\* one or two slots with up to MaxSeats seats
MultiSeatRequests ==
    {MkRequest(NewUsers(n), MkSlots(ks), un) :
        n \in 1..MaxUsers,
        ks \in UNION {[1..len -> {1} \X {"A", "B", "D"} \X (1..MaxSeats)] : len \in 1..2},
        un \in UnavailPatterns(MaxUsers, 2)}

\* one A slot with k seats and k or k+1 users
WideRequests ==
    {MkRequest(NewUsers(n), MkSlots(<<<<1, "A", k>>>>), {}) :
        k \in 1..MaxWide, n \in 1..(MaxWide + 1)}

MaxBandSlots == 5

\* three users, two-seat slots on consecutive dates: base >= 3
BandRequests ==
    {MkRequest(NewUsers(3), MkSlots([s \in 1..len |-> <<s, "B", 2>>]), {}) :
        len \in 4..MaxBandSlots}

\* direct calls with an empty user or slot list
EmptyRequests ==
    {MkRequest(NewUsers(n), MkSlots(ks), {}) :
        n \in 0..1, ks \in {<<>>, <<<<1, "A", 1>>>>}}

\* users as a request gives them when it leaves every optional field out
DefaultRequests ==
    {MkRequest(Users(n), MkSlots(<<<<1, t, 1>>>>), {}) :
        n \in 1..MaxUsers, t \in {"A", "C"}}

\* users with history: total and expected total, possibly absent
HistoryRequests ==
    {MkRequest([u \in 1..n |-> [DefaultUser EXCEPT !.history_total = h[1],
                                                   !.history_expected = h[2]]],
               MkSlots(<<<<1, "A", k>>>>), {}) :
        n \in 1..2, k \in 1..MaxSeats, h \in (0..2) \X {Absent, <<0>>, <<2>>}}

\* two users alike except that one likes nights (with a C and an A slot) or
\* dislikes weekends (with a D and an A slot); single seats, no unavailability
PreferenceRequests ==
    {MkRequest([u \in 1..2 |->
                   [NewUser EXCEPT !.likes_night = (u = who /\ t = "C"),
                                       !.dislikes_weekend = (u = who /\ t = "D")]],
               MkSlots(<<<<1, t, 1>>, <<d, "A", 1>>>>), {}) :
        who \in 1..2, t \in {"C", "D"}, d \in 1..MaxDate}

MaxSplitSlots == 6

\* n users without history or preferences, n * k single-seat slots of one
\* duty type on consecutive dates, no unavailability
EqualSplitRequests ==
    {MkRequest(NewUsers(nk[1]), MkSlots([s \in 1..(nk[1] * nk[2]) |-> <<s, t, 1>>]), {}) :
        nk \in {p \in (2..MaxUsers) \X (1..MaxSplitSlots) : p[1] * p[2] <= MaxSplitSlots},
        t \in DutyTypes}

MaxWeekDate == 8

\* n users, three single-seat slots on the three dates up to MaxWeekDate, the
\* period starting on date 1
LateWeekRequests ==
    {MkRequest(NewUsers(n), MkSlots([s \in 1..3 |-> <<MaxWeekDate - 3 + s, t, 1>>]), {}) :
        n \in 1..2, t \in {"A", "B"}}

\* three single-seat slots of one type dated 1, 2 and 4: adjacent in date
\* order, not three consecutive days
GapRequests ==
    {MkRequest(NewUsers(n), MkSlots(<<<<1, t, 1>>, <<2, t, 1>>, <<4, t, 1>>>>), {}) :
        n \in 1..2, t \in {"A", "C"}}

\* two users whose request entries carry a historical DESK count, one A slot
\* with two seats
DeskHistoryRequests ==
    {MkRequest([u \in 1..2 |->
                   [likes_night |-> FALSE, dislikes_weekend |-> FALSE,
                    history_total |-> 0, history_expected |-> <<0>>, history_a |-> 0,
                    historyDesk |-> hd[u]]],
               MkSlots(<<<<1, "A", 2>>>>), {}) :
        hd \in [1..2 -> 0..1]}

\* MaxSlots A slots on consecutive dates, each with the same number of seats
RoleBalanceRequests ==
    {MkRequest(NewUsers(n), MkSlots([s \in 1..MaxSlots |-> <<s, "A", k>>]), {}) :
        n \in 2..MaxUsers, k \in 2..MaxSeats}

FullRequests ==
    DefaultRequests \cup RoleBalanceRequests \cup DeskHistoryRequests \cup GapRequests \cup LateWeekRequests \cup EqualSplitRequests \cup PairRequests \cup ClosedRequests \cup TripleRequests \cup MultiSeatRequests
    \cup WideRequests \cup BandRequests \cup EmptyRequests \cup HistoryRequests
    \cup PreferenceRequests

\* three senior users, two-seat segments on consecutive dates (base >= 3),
\* nobody or user 1 unavailable for all of them
SeniorBandRequests ==
    {MkRequest(SeniorUsers(3), MkSeniorSlots([s \in 1..len |-> <<s, "MORNING", 2>>]),
               IF closed THEN {<<1, s>> : s \in 1..len} ELSE {}) :
        len \in 4..MaxBandSlots, closed \in BOOLEAN}

\* one segment with up to MaxUsers seats, each seat annotated with one role
\* or with none
SeniorRoleRequests ==
    {MkRequest(SeniorUsers(MaxUsers),
               [s \in 1..1 |->
                   [date |-> 1, segment |-> g,
                    seats |-> [i \in 1..k |-> [id |-> <<"seat", s, i>>, role |-> r]]]],
               {}) :
        g \in Segments, k \in 1..MaxUsers, r \in {None, "DESK", "OPERATOR"}}

\* SeniorUser with its segment preferences
SeniorUser(likes_morning, likes_evening, h) ==
    [likes_morning |-> likes_morning, likes_evening |-> likes_evening,
     history_total |-> h, history_a |-> h]

\* two senior users of equal history, one preferring mornings and the other
\* evenings (in either order), a MORNING and an EVENING segment of one date
SeniorPreferenceRequests ==
    {MkRequest(<<SeniorUser(m, ~m, h), SeniorUser(~m, m, h)>>,
               MkSeniorSlots(<<<<1, g, 1>>, <<1, IF g = "MORNING" THEN "EVENING" ELSE "MORNING", 1>>>>),
               {}) :
        m \in BOOLEAN, h \in 0..1, g \in Segments}

FarHistory == 2004

\* two senior users whose A-shift histories lie FarHistory apart, one segment
SeniorFarHistoryRequests ==
    {MkRequest(<<SeniorUser(FALSE, FALSE, h), SeniorUser(FALSE, FALSE, FarHistory - h)>>,
               MkSeniorSlots(<<<<1, g, k>>>>), {}) :
        h \in 0..1, g \in Segments, k \in 1..MaxSeats}

\* the same dates for the senior variant
SeniorLateWeekRequests ==
    {MkRequest(SeniorUsers(n), MkSeniorSlots([s \in 1..3 |-> <<MaxWeekDate - 3 + s, g, 1>>]), {}) :
        n \in 1..2, g \in Segments}

SkewedHistory == 1500

\* three senior users, the third with an A-shift history of SkewedHistory, one
\* single-seat segment that the first two users close
SeniorSkewedRequests ==
    {MkRequest(<<DefaultSeniorUser, DefaultSeniorUser, SeniorUser(FALSE, FALSE, SkewedHistory)>>,
               MkSeniorSlots(<<<<1, g, 1>>>>), {<<1, 1>>, <<2, 1>>}) :
        g \in Segments}

SeniorRequests ==
    SeniorSkewedRequests
    \cup
    SeniorLateWeekRequests
    \cup
    SeniorFarHistoryRequests
    \cup
    SeniorBandRequests
    \cup
    SeniorPreferenceRequests
    \cup
    SeniorRoleRequests
    \cup
    {MkRequest(SeniorUsers(n), MkSeniorSlots(ks), un) :
        n \in 1..MaxUsers,
        ks \in UNION {[1..len -> (1..MaxDate) \X Segments \X (1..MaxSeats)] : len \in 1..2},
        un \in UnavailPatterns(MaxUsers, 2)}
    \cup
    {MkRequest(SeniorUsers(n), MkSeniorSlots([s \in 1..MaxSlots |-> <<ds[s], ts[s], 1>>]), un) :
        n \in 2..MaxUsers,
        ds \in DatePatterns,
        ts \in KindPatterns(Segments),
        un \in UnavailPatterns(MaxUsers, MaxSlots)}
    \cup
    {MkRequest(SeniorUsers(n), MkSeniorSlots(ks), {}) :
        n \in 0..1, ks \in {<<>>, <<<<1, "MORNING", 1>>>>}}

\* a validation that looks at the user list only
validates_users_only(req) == Len(req.users) >= 1

\* request validation of the compute entry points: users, slots and seats
\* have min_length = 1, dutyType and segment are enumerations
Validates(req) ==
    /\ Len(req.users) >= 1
    /\ Len(req.slots) >= 1
    /\ \A s \in 1..Len(req.slots) :
          /\ Len(req.slots[s].seats) >= 1
          /\ IF "segment" \in DOMAIN req.slots[s]
             THEN req.slots[s].segment \in Segments
             ELSE req.slots[s].duty_type \in DutyTypes

(***************************************************************************)
(* The solve pipeline.                                                     *)
(***************************************************************************)
NoCtx == [fault |-> None]
NoResult == [status |-> None]
NoResponse == [meta |-> None]

Init ==
    /\ variant \in {"full", "senior"}
    /\ declared \in BOOLEAN
    /\ variant = "senior" => declared = FALSE
    /\ request \in IF variant = "full" THEN FullRequests ELSE SeniorRequests
    /\ pc = "request"
    /\ ctx = NoCtx
    /\ cp = {}
    /\ result = NoResult
    /\ response = NoResponse

\* solve step 1: _build_context
BuildContext ==
    /\ pc = "request"
    /\ ctx' = IF variant = "full" THEN SchedulerContext(request, declared)
              ELSE SeniorContext(request)
    /\ pc' = IF ctx'.fault # None THEN "fault" ELSE "context"
    /\ UNCHANGED <<variant, declared, request, cp, result, response>>

IsTrivial(c) == Len(c.users) = 0 \/ Len(c.slots) = 0

\* _solve_with_cpsat with an empty user or slot list
SolveTrivial ==
    /\ pc = "context"
    /\ IsTrivial(ctx)
    /\ result' = TrivialResult
    /\ pc' = "solved"
    /\ UNCHANGED <<variant, declared, request, ctx, cp, response>>

\* _solve_with_cpsat up to model.Minimize: variables, hard constraints, penalties
BuildModel ==
    /\ pc = "context"
    /\ ~IsTrivial(ctx)
    /\ IF variant = "full" /\ PenaltyFault(ctx, declared) # None
       THEN pc' = "fault" /\ cp' = cp
       ELSE /\ cp' = IF variant = "full" THEN FullSolutions(ctx) ELSE SeniorSolutions(ctx)
            /\ pc' = "model"
    /\ UNCHANGED <<variant, declared, request, ctx, result, response>>

Extracted(x) ==
    IF variant = "full" THEN ExtractAssignments(ctx, x) ELSE SeniorExtractAssignments(ctx, x)

\* solver.Solve proves a solution optimal
SolveOptimal ==
    /\ pc = "model"
    /\ \E sol \in cp :
        /\ IsOptimal(cp, sol)
        /\ result' = SolvedResult(ctx, sol.x, "OPTIMAL", Extracted(sol.x))
    /\ pc' = "solved"
    /\ UNCHANGED <<variant, declared, request, ctx, cp, response>>

\* solver.Solve stops at the time limit with some solution
SolveFeasible ==
    /\ pc = "model"
    /\ \E sol \in cp :
        result' = SolvedResult(ctx, sol.x, "FEASIBLE", Extracted(sol.x))
    /\ pc' = "solved"
    /\ UNCHANGED <<variant, declared, request, ctx, cp, response>>

\* solver.Solve proves that the model has no solution
SolveInfeasible ==
    /\ pc = "model"
    /\ cp = {}
    /\ result' = UnsolvedResult(ctx, "INFEASIBLE")
    /\ pc' = "solved"
    /\ UNCHANGED <<variant, declared, request, ctx, cp, response>>

\* solver.Solve stops at the time limit without a solution
SolveUnknown ==
    /\ pc = "model"
    /\ result' = UnsolvedResult(ctx, "UNKNOWN")
    /\ pc' = "solved"
    /\ UNCHANGED <<variant, declared, request, ctx, cp, response>>

\* solve step 3 of the full variant
AssignRoles ==
    /\ pc = "solved"
    /\ variant = "full"
    /\ result' = [result EXCEPT !.assignments = _assign_desk_operator_roles(ctx, @)]
    /\ pc' = "roles"
    /\ UNCHANGED <<variant, declared, request, ctx, cp, response>>

\* last step of solve
BuildResponse ==
    /\ \/ pc = "roles"
       \/ pc = "solved" /\ variant = "senior"
    /\ response' = _build_response(result, ctx)
    /\ pc' = "done"
    /\ UNCHANGED <<variant, declared, request, ctx, cp, result>>

Next ==
    \/ BuildContext
    \/ SolveTrivial
    \/ BuildModel
    \/ SolveOptimal
    \/ SolveFeasible
    \/ SolveInfeasible
    \/ SolveUnknown
    \/ AssignRoles
    \/ BuildResponse

Spec == Init /\ [][Next]_vars

(***************************************************************************)
(* Properties of the response.                                             *)
(***************************************************************************)
Done == pc = "done"
Successful == Done /\ response.meta.solverStatus \in SuccessStatuses

ReqUsers == 1..Len(request.users)
ReqSlots == 1..Len(request.slots)

\* positions of the response's assignments of slot s, of user u
OfSlot(s) == {i \in 1..Len(response.assignments) : response.assignments[i].slotId = s}
OfUser(u) == {i \in 1..Len(response.assignments) : response.assignments[i].userId = u}

SlotOf(i) == request.slots[response.assignments[i].slotId]

AllSlotsFilled ==
    \A s \in ReqSlots : Cardinality(OfSlot(s)) = Len(request.slots[s].seats)

\* C1: in both variants the assignment list of a response is empty or holds,
\* for every slot of the request, exactly as many assignments as the slot has
\* seats; with status OPTIMAL or FEASIBLE every slot is filled exactly.
C1_Coverage ==
    Done =>
        /\ response.assignments = <<>> \/ AllSlotsFilled
        /\ response.meta.solverStatus \in SuccessStatuses => AllSlotsFilled

\* a successful full-variant response to two slots, one of them with two seats
C1_Witness ==
    /\ Successful
    /\ variant = "full"
    /\ Len(request.slots) = 2
    /\ \E s \in ReqSlots :
          Len(request.slots[s].seats) = 2 /\ Cardinality(OfSlot(s)) = 2

RequestBase == FloorDiv(total_seats(request.slots), Len(request.users))

\* C2: in a successful full-variant response every user of the request,
\* assigned or not, has between max(0, base - 2) and base + 2 assignments,
\* base being floor(total seats / number of users).
C2_ShiftBand ==
    (Successful /\ variant = "full") =>
        \A u \in ReqUsers :
            /\ Max2(0, RequestBase - 2) <= Cardinality(OfUser(u))
            /\ Cardinality(OfUser(u)) <= RequestBase + 2

\* base 3: one user at the lower limit 1, another at the upper limit 5
C2_Witness ==
    /\ Successful
    /\ variant = "full"
    /\ RequestBase >= 3
    /\ \E u, v \in ReqUsers :
          /\ Cardinality(OfUser(u)) = RequestBase - 2
          /\ Cardinality(OfUser(v)) = RequestBase + 2

\* C3: in a successful full-variant response no user holds a night slot
\* (C or F) and a morning slot (A or D) of the same date.
C3_NoNightThenMorning ==
    (Successful /\ variant = "full") =>
        \A i, j \in 1..Len(response.assignments) :
            ~ /\ response.assignments[i].userId = response.assignments[j].userId
              /\ SlotOf(i).date = SlotOf(j).date
              /\ SlotOf(i).duty_type \in {"C", "F"}
              /\ SlotOf(j).duty_type \in {"A", "D"}

\* an F slot and a D slot of one date, filled by two different users
C3_Witness ==
    /\ Successful
    /\ variant = "full"
    /\ \E i, j \in 1..Len(response.assignments) :
          /\ SlotOf(i).date = SlotOf(j).date
          /\ SlotOf(i).duty_type = "F"
          /\ SlotOf(j).duty_type = "D"
          /\ response.assignments[i].userId # response.assignments[j].userId

OnDate(u, d) == {i \in OfUser(u) : SlotOf(i).date = d}

\* C4: in a successful response of either variant no user has more than two
\* assignments on one date, whether or not the date has more than two slots.
C4_PerDayCap ==
    Successful =>
        \A u \in ReqUsers : \A d \in SlotDates(request.slots) :
            Cardinality(OnDate(u, d)) <= 2

\* a date with three slots, of which one user holds two
C4_Witness ==
    /\ Successful
    /\ \E d \in SlotDates(request.slots) :
          /\ Cardinality({s \in ReqSlots : request.slots[s].date = d}) >= 3
          /\ \E u \in ReqUsers : Cardinality(OnDate(u, d)) = 2

\* rank of assignment i among the assignments of its slot, by user
RankInSlot(i) ==
    Cardinality({j \in OfSlot(response.assignments[i].slotId) :
                    response.assignments[j].userId <= response.assignments[i].userId})

\* C5: in a successful response the assignments of each slot pair its seats
\* one-to-one with distinct users: no user twice, every seat id a seat of the
\* slot and used once, the i-th assigned user (request order) on the i-th
\* seat, and no synthetic seat id.
C5_SeatBinding ==
    Successful =>
        \A s \in ReqSlots :
            LET seats == request.slots[s].seats
            IN  /\ Cardinality(OfSlot(s)) = Len(seats)
                /\ \A i, j \in OfSlot(s) :
                      i # j =>
                        /\ response.assignments[i].userId # response.assignments[j].userId
                        /\ response.assignments[i].seatId # response.assignments[j].seatId
                /\ \A i \in OfSlot(s) :
                      /\ \E k \in 1..Len(seats) : seats[k].id = response.assignments[i].seatId
                      /\ RankInSlot(i) <= Len(seats)
                      /\ response.assignments[i].seatId = seats[RankInSlot(i)].id
                      /\ response.assignments[i].seatId[1] # "synthetic"

\* a two-seat slot whose second seat went to the third user
C5_Witness ==
    /\ Successful
    /\ \E s \in ReqSlots :
          /\ Len(request.slots[s].seats) = 2
          /\ \E i \in OfSlot(s) :
                /\ response.assignments[i].userId = 3
                /\ response.assignments[i].seatId = request.slots[s].seats[2].id

\* what the hard constraints read of a request
HardContextOf(req) ==
    [users |-> req.users,
     slots |-> req.slots,
     date_to_slot_indices |-> date_to_slot_indices(req.slots),
     base_shifts |-> base_shifts(req)]

\* the rosters that satisfy the hard constraints of a variant
HardFeasible(v, c) ==
    IF v = "full"
    THEN {y \in Product([s \in SlotIdx(c) |->
                {us \in SUBSET UserIdx(c) : add_coverage_constraint(c, s, us)}]) :
            add_all_hard_constraints(c, y, c.base_shifts + 2)}
    ELSE {y \in Product([s \in SlotIdx(c) |->
                {us \in SUBSET UserIdx(c) : SeniorCoverage(c, s, us)}]) :
            SeniorHardConstraints(c, y, c.base_shifts + 2)}

\* C6: unavailability never makes a request unsolvable: a validated request
\* with declared unavailability whose hard constraints are satisfiable ends
\* with a response carrying a success status (the time limit aside), for the
\* solver as published.
C6_UnavailabilityNeverUnsolvable ==
    (/\ ~declared
     /\ pc \in {"fault", "done"}
     /\ Validates(request)
     /\ unavailability_set(request) # {}
     /\ HardFeasible(variant, HardContextOf(request)) # {})
    => (Done /\ response.meta.solverStatus \in SuccessStatuses \cup {"UNKNOWN"})

\* the roster of the response: per slot, the set of its users
RosterOf ==
    [s \in ReqSlots |-> {response.assignments[i].userId : i \in OfSlot(s)}]

ViolationsOf(x) == Cardinality({p \in ctx.unavailability_set : p[1] \in x[p[2]]})

\* C7: in a response with status OPTIMAL the number of unavailability
\* violations is the least that any roster satisfying the hard constraints
\* has, whatever the other penalties.
C7_ViolationsMinimal ==
    (Done /\ response.meta.solverStatus = "OPTIMAL") =>
        \A y \in HardFeasible(variant, ctx) :
            ViolationsOf(y) >= response.meta.unavailabilityViolations

\* the role table: (DESK, OPERATOR) for k assignees of an A slot
RoleTable(k) ==
    CASE k = 1 -> <<0, 1>>
      [] k = 2 -> <<1, 1>>
      [] k = 3 -> <<1, 2>>
      [] k = 4 -> <<2, 2>>
      [] k = 5 -> <<3, 2>>
      [] k = 6 -> <<3, 3>>
      [] k = 7 -> <<4, 3>>
      [] OTHER -> <<(k + 1) \div 2, k - ((k + 1) \div 2)>>

WithRole(s, role) == {i \in OfSlot(s) : response.assignments[i].seatRole = role}

\* C9: in a successful full-variant response an A slot with k assignees has
\* the DESK and OPERATOR numbers of the role table (ceil(k/2) DESK from
\* k = 8 on), each of its assignees has one of the two roles, and the
\* assignments of every other slot have no role.
C9_RoleSplit ==
    (Successful /\ variant = "full") =>
        \A s \in ReqSlots :
            IF request.slots[s].duty_type = "A"
            THEN /\ Cardinality(OfSlot(s)) >= 1 =>
                      <<Cardinality(WithRole(s, "DESK")),
                        Cardinality(WithRole(s, "OPERATOR"))>>
                          = RoleTable(Cardinality(OfSlot(s)))
                 /\ OfSlot(s) = WithRole(s, "DESK") \cup WithRole(s, "OPERATOR")
            ELSE OfSlot(s) = WithRole(s, None)

\* an A slot with nine assignees, five of them DESK
C9_Witness ==
    /\ Successful
    /\ variant = "full"
    /\ \E s \in ReqSlots :
          /\ request.slots[s].duty_type = "A"
          /\ Cardinality(OfSlot(s)) = 9
          /\ Cardinality(WithRole(s, "DESK")) = 5

\* C10: a full-variant solve of a validated request under the published
\* settings and context declarations ends with a response, never with an
\* internal fault.
C10_AlwaysResponds ==
    (variant = "full" /\ ~declared /\ Validates(request)) => pc # "fault"

(***************************************************************************)
(* The per-pair unavailability weight on its own: contexts with many       *)
(* closed slots, and the weight of every closed (user, slot) pair.         *)
(***************************************************************************)
MaxCatSlots == 2
MaxOtherSlots == 12

\* two users, MaxCatSlots C slots followed by MaxOtherSlots B slots; user u
\* closes the first a[u] C slots and the first b[u] B slots
WeightRequests ==
    {MkRequest(NewUsers(2),
               MkSlots([s \in 1..(MaxCatSlots + MaxOtherSlots) |->
                          <<s, IF s <= MaxCatSlots THEN "C" ELSE "B", 1>>]),
               {p \in (1..2) \X (1..(MaxCatSlots + MaxOtherSlots)) :
                   \/ p[2] <= a[p[1]]
                   \/ p[2] > MaxCatSlots /\ p[2] - MaxCatSlots <= b[p[1]]}) :
        a \in [1..2 -> 1..MaxCatSlots], b \in [1..2 -> 0..MaxOtherSlots]}

\* the context builder called on a weight request, by the source as it is
\* (declared = FALSE) or with the context fields of spec section 9 declared
WeightInit ==
    /\ variant = "full"
    /\ declared \in BOOLEAN
    /\ request \in WeightRequests
    /\ pc = "request"
    /\ ctx = NoCtx
    /\ cp = {}
    /\ result = NoResult
    /\ response = NoResponse

\* the loop over the unavailability set: one fixed weight per pair
WeighPairs ==
    /\ pc = "context"
    /\ result' = [status |-> None,
                  weights |-> [p \in ctx.unavailability_set |->
                                  fixed_weight(ctx, p[1], p[2])]]
    /\ pc' = "weighed"
    /\ UNCHANGED <<variant, declared, request, ctx, cp, response>>

WeightNext == BuildContext \/ WeighPairs

SpecWeight == WeightInit /\ [][WeightNext]_vars

\* C8: of two users closed for the same slot, the one who closed more slots
\* of the slot's category has the strictly smaller weight, whatever their
\* total numbers of closed slots.
C8_CategoryCloserPaysLess ==
    pc = "weighed" =>
        \A p, q \in DOMAIN result.weights :
            (/\ p[2] = q[2]
             /\ ctx.blocked_count_per_category[p[1]][_get_category(ctx.slots[p[2]].duty_type)]
                  > ctx.blocked_count_per_category[q[1]][_get_category(ctx.slots[q[2]].duty_type)])
            => result.weights[p] < result.weights[q]

(***************************************************************************)
(* Responses without a schedule, validation, and the remaining hard rules. *)
(***************************************************************************)
\* C11: a response whose status is the solver's and is neither OPTIMAL nor
\* FEASIBLE (INFEASIBLE, UNKNOWN) has no assignments, totalAssignments 0, all
\* of maxShifts, minShifts, usersAtBasePlus2 and unavailabilityViolations 0,
\* base = floor(total seats / number of users), and exactly one warning, which
\* carries the status name.
C11_UnsolvedResponse ==
    (Done /\ response.meta.solverStatus \notin SuccessStatuses \cup {"TRIVIAL"}) =>
        /\ response.meta.solverStatus \in {"INFEASIBLE", "UNKNOWN"}
        /\ response.assignments = <<>>
        /\ response.meta.totalAssignments = 0
        /\ response.meta.maxShifts = 0
        /\ response.meta.minShifts = 0
        /\ response.meta.usersAtBasePlus2 = 0
        /\ response.meta.unavailabilityViolations = 0
        /\ response.meta.base = RequestBase
        /\ Len(response.meta.warnings) = 1
        /\ response.meta.warnings[1].status = response.meta.solverStatus

\* a senior response INFEASIBLE because a slot has more seats than users
C11_Witness ==
    /\ Done
    /\ variant = "senior"
    /\ response.meta.solverStatus = "INFEASIBLE"
    /\ RequestBase >= 1
    /\ \E s \in ReqSlots : Len(request.slots[s].seats) > Len(request.users)

(***************************************************************************)
(* The compute entry points: FastAPI validates the body against the        *)
(* request schema (422 on failure) and then calls solve.                   *)
(***************************************************************************)
\* bodies the schema refuses: no seats, unknown dutyType, unknown segment
InvalidFullRequests ==
    {MkRequest(NewUsers(n), MkSlots(<<<<1, t, k>>>>), {}) :
        n \in 1..2, t \in {"A", "X"}, k \in 0..1} \ FullRequests

InvalidSeniorRequests ==
    {MkRequest(SeniorUsers(n), MkSeniorSlots(<<<<1, g, k>>>>), {}) :
        n \in 1..2, g \in {"MORNING", "NOON"}, k \in 0..1} \ SeniorRequests

ApiInit ==
    /\ variant \in {"full", "senior"}
    /\ declared \in BOOLEAN
    /\ variant = "senior" => declared = FALSE
    /\ request \in IF variant = "full"
                   THEN MultiSeatRequests \cup EmptyRequests \cup InvalidFullRequests
                   ELSE SeniorRequests \cup InvalidSeniorRequests
    /\ pc = "received"
    /\ ctx = NoCtx
    /\ cp = {}
    /\ result = NoResult
    /\ response = NoResponse

\* compute_schedule / compute_senior_schedule: the body is parsed into the
\* request model before the handler runs
ParseRequest ==
    /\ pc = "received"
    /\ pc' = IF Validates(request) THEN "request" ELSE "rejected"
    /\ UNCHANGED <<variant, declared, request, ctx, cp, result, response>>

ApiNext ==
    \/ ParseRequest
    \/ BuildContext
    \/ BuildModel
    \/ SolveOptimal
    \/ SolveFeasible
    \/ SolveInfeasible
    \/ SolveUnknown
    \/ AssignRoles
    \/ BuildResponse

SpecApi == ApiInit /\ [][ApiNext]_vars

\* C12: through the entry points a request with an unavailability pair that
\* names a user or a slot missing from the request is refused and never
\* solved, so once a context exists every declared pair is in its
\* unavailability set.
C12_UnknownIdsRejected ==
    (pc \notin {"received", "rejected"}) =>
        /\ request.unavailability \subseteq ReqUsers \X ReqSlots
        /\ ctx # NoCtx /\ ctx.fault = None =>
              ctx.unavailability_set = request.unavailability

\* C14: through the entry points a request with no users, no slots, a slot
\* without seats or an unknown dutyType / segment is refused before a context
\* is built or a solver runs; every request that reaches solve has a user, a
\* slot, and requiredCount >= 1 for every slot.
C14_InvalidRejected ==
    /\ (/\ pc # "received"
        /\ \/ Len(request.users) = 0
           \/ Len(request.slots) = 0
           \/ \E s \in ReqSlots : Len(request.slots[s].seats) = 0
           \/ \E s \in ReqSlots :
                 \/ "duty_type" \in DOMAIN request.slots[s]
                      /\ request.slots[s].duty_type \notin {"A", "B", "C", "D", "E", "F"}
                 \/ "segment" \in DOMAIN request.slots[s]
                      /\ request.slots[s].segment \notin {"MORNING", "EVENING"})
       => (pc = "rejected" /\ ctx = NoCtx /\ cp = {}
              /\ result = NoResult /\ response = NoResponse)
    /\ (pc \notin {"received", "rejected"}) =>
           /\ Len(request.users) >= 1
           /\ Len(request.slots) >= 1
           /\ \A s \in ReqSlots : required_count(request.slots[s]) >= 1

\* a body with users and a slot that has no seats, refused
C14_Witness ==
    /\ pc = "rejected"
    /\ Len(request.users) >= 1
    /\ Len(request.slots) >= 1
    /\ \E s \in ReqSlots : Len(request.slots[s].seats) = 0
    /\ response = NoResponse

\* C13: a solve called with an empty user list or an empty slot list returns a
\* response with no assignments, status TRIVIAL, base, maxShifts and minShifts
\* 0, totalSlots the number of slots given and exactly one warning, whichever
\* of the two lists is empty.
C13_TrivialResult ==
    (/\ ~declared
     /\ pc \in {"fault", "done"}
     /\ Len(request.users) = 0 \/ Len(request.slots) = 0) =>
        /\ Done
        /\ response.assignments = <<>>
        /\ response.meta.solverStatus = "TRIVIAL"
        /\ response.meta.base = 0
        /\ response.meta.maxShifts = 0
        /\ response.meta.minShifts = 0
        /\ response.meta.totalSlots = Len(request.slots)
        /\ Len(response.meta.warnings) = 1

\* C15: in a successful full-variant response no user holds a C slot dated d
\* and an A slot dated d + 1.
C15_NoNightThenNextMorning ==
    (Successful /\ variant = "full") =>
        \A i, j \in 1..Len(response.assignments) :
            ~ /\ response.assignments[i].userId = response.assignments[j].userId
              /\ SlotOf(i).duty_type = "C"
              /\ SlotOf(j).duty_type = "A"
              /\ SlotOf(j).date = SlotOf(i).date + 1

\* C16: in a successful senior response every user has between
\* max(0, base - 2) and base + 2 assignments.
C16_SeniorShiftBand ==
    (Successful /\ variant = "senior") =>
        \A u \in ReqUsers :
            /\ Max2(0, RequestBase - 2) <= Cardinality(OfUser(u))
            /\ Cardinality(OfUser(u)) <= RequestBase + 2

\* the seat of the request that assignment i occupies
SeatOf(i) ==
    LET seats == SlotOf(i).seats
    IN  seats[CHOOSE k \in 1..Len(seats) : seats[k].id = response.assignments[i].seatId]

\* C17: in a successful senior response a slot with k assignees has one
\* OPERATOR and k - 1 DESK, every assignment has a role, the OPERATOR is the
\* assignee latest in the request's user order, whatever role the seats of
\* the request are annotated with.
C17_SeniorRoles ==
    (Successful /\ variant = "senior") =>
        \A s \in ReqSlots :
            LET k == Cardinality(OfSlot(s))
                last == MaxOf({response.assignments[i].userId : i \in OfSlot(s)})
            IN  k >= 1 =>
                  /\ Cardinality(WithRole(s, "OPERATOR")) = 1
                  /\ Cardinality(WithRole(s, "DESK")) = k - 1
                  /\ \A i \in OfSlot(s) :
                        /\ response.assignments[i].seatRole \in {"DESK", "OPERATOR"}
                        /\ response.assignments[i].seatRole = "OPERATOR"
                              <=> response.assignments[i].userId = last

\* a segment with three assignees whose seats are all annotated OPERATOR:
\* two of them come back as DESK
C17_Witness ==
    /\ Successful
    /\ variant = "senior"
    /\ \E s \in ReqSlots :
          /\ Cardinality(OfSlot(s)) = 3
          /\ \A i \in OfSlot(s) : SeatOf(i).role = "OPERATOR"
          /\ Cardinality(WithRole(s, "DESK")) = 2

\* C18: for two senior users of equal history, one with likesMorning and the
\* other with likesEvening, and a single-seat MORNING and a single-seat
\* EVENING segment of one date without unavailability, every OPTIMAL response
\* gives the MORNING segment to the likesMorning user and the EVENING segment
\* to the likesEvening user.
C18_SeniorPreferencesHonoured ==
    (/\ Done
     /\ variant = "senior"
     /\ request \in SeniorPreferenceRequests
     /\ response.meta.solverStatus = "OPTIMAL") =>
        \A i \in 1..Len(response.assignments) :
            LET user == request.users[response.assignments[i].userId]
            IN  IF SlotOf(i).segment = "MORNING"
                THEN user.likes_morning ELSE user.likes_evening

\* objective of the roster x in the model that was solved
ObjectiveOf(x) == (CHOOSE sol \in cp : sol.x = x).obj

\* C19: for two users alike except for one preference, a single-seat C (or D)
\* slot and a single-seat A slot and no unavailability, every OPTIMAL response
\* of the full variant gives the C slot to the user who likes nights and the D
\* slot to the user who does not dislike weekends, and the roster with the
\* two users exchanged costs exactly bonus_likes_night (penalty_dislikes_
\* weekend) more.
C19_PreferencesDecide ==
    (/\ Done
     /\ variant = "full"
     /\ request \in PreferenceRequests
     /\ response.meta.solverStatus = "OPTIMAL") =>
        LET x == RosterOf
            exchanged == <<x[2], x[1]>>
            night == request.slots[1].duty_type = "C"
        IN  /\ \A i \in 1..Len(response.assignments) :
                  LET user == request.users[response.assignments[i].userId]
                  IN  /\ SlotOf(i).duty_type = "C" => user.likes_night
                      /\ SlotOf(i).duty_type = "D" => ~user.dislikes_weekend
            /\ \E sol \in cp : sol.x = exchanged
            /\ ObjectiveOf(exchanged) - ObjectiveOf(x) =
                  IF night THEN bonus_likes_night ELSE penalty_dislikes_weekend

\* the second user likes nights and holds the C slot
C19_Witness ==
    /\ Done
    /\ variant = "full"
    /\ request \in PreferenceRequests
    /\ response.meta.solverStatus = "OPTIMAL"
    /\ request.users[2].likes_night
    /\ \E i \in 1..Len(response.assignments) :
          SlotOf(i).duty_type = "C" /\ response.assignments[i].userId = 2

\* C20: for n >= 2 users without history or preferences, no unavailability
\* and n * k single-seat slots of one duty type on consecutive dates, every
\* OPTIMAL full-variant response gives each user exactly k = base
\* assignments, and reports maxShifts = minShifts = base.
C20_EqualSplit ==
    (/\ Done
     /\ variant = "full"
     /\ request \in EqualSplitRequests
     /\ response.meta.solverStatus = "OPTIMAL") =>
        /\ RequestBase * Len(request.users) = Len(request.slots)
        /\ \A u \in ReqUsers : Cardinality(OfUser(u)) = RequestBase
        /\ response.meta.maxShifts = RequestBase
        /\ response.meta.minShifts = RequestBase
        /\ response.meta.base = RequestBase

\* three users and six slots: two each
C20_Witness ==
    /\ Done
    /\ variant = "full"
    /\ request \in EqualSplitRequests
    /\ response.meta.solverStatus = "OPTIMAL"
    /\ Len(request.users) = 3
    /\ Len(request.slots) = 6
    /\ \A u \in ReqUsers : Cardinality(OfUser(u)) = 2

(***************************************************************************)
(* Marking, determinism, the objective's terms, roles and meta.            *)
(***************************************************************************)
\* the extra assignments of user u
ExtraOf(u) == {i \in OfUser(u) : response.assignments[i].isExtra}

\* C21: in a response of either variant each user u has exactly
\* max(0, count[u] - (base + 1)) assignments marked isExtra, they are the last
\* of u's assignments in list order (the n-th with n > base + 1), and the
\* number of users with an extra assignment is meta.usersAtBasePlus2.
C21_ExtraMarking ==
    Done =>
        /\ \A u \in ReqUsers :
              /\ Cardinality(ExtraOf(u))
                    = Max2(0, Cardinality(OfUser(u)) - (response.meta.base + 1))
              /\ \A i \in OfUser(u) :
                    response.assignments[i].isExtra
                        <=> Cardinality({j \in OfUser(u) : j <= i}) > response.meta.base + 1
              /\ \A i \in ExtraOf(u) : \A j \in OfUser(u) \ ExtraOf(u) : j < i
        /\ Cardinality({u \in ReqUsers : ExtraOf(u) # {}}) = response.meta.usersAtBasePlus2

\* a user at base + 2 whose last assignment, and only that one, is extra
C21_Witness ==
    /\ Successful
    /\ response.meta.usersAtBasePlus2 >= 1
    /\ \E u \in ReqUsers :
          /\ Cardinality(OfUser(u)) = response.meta.base + 2
          /\ Cardinality(ExtraOf(u)) = 1
          /\ \E i \in ExtraOf(u) : \A j \in OfUser(u) : j <= i

\* C23: soft penalties never remove a hard-feasible roster: the solutions of
\* the model built for a request are exactly the rosters that satisfy the
\* hard constraints of its variant (every such roster extends to values of
\* the auxiliary penalty variables inside their declared domains), so the
\* model has no solution only when the hard constraints have none.
C23_PenaltiesKeepFeasibility ==
    pc = "model" =>
        /\ {sol.x : sol \in cp} = HardFeasible(variant, ctx)
        /\ (cp = {} => HardFeasible(variant, ctx) = {})

\* C24: for a user whose history carries no expectedTotal the solve treats
\* expectedTotal as 0 and completes normally, with the user's ideal equal to
\* clamp(base - historyTotal, max(0, base - 2), base + 2).
C24_MissingExpectedIsZero ==
    (/\ variant = "full"
     /\ declared
     /\ Validates(request)
     /\ \E u \in ReqUsers : request.users[u].history_expected = Absent
     /\ pc \in {"model", "fault"})
    => /\ pc = "model"
       /\ \A u \in ReqUsers :
            request.users[u].history_expected = Absent =>
                _compute_ideal_current(ctx)[u]
                    = Min2(Max2(ctx.base_shifts - request.users[u].history_total,
                                Max2(0, ctx.base_shifts - 2)),
                           ctx.base_shifts + 2)

\* C25: the objective of the full variant contains, for every user, the term
\* penalty_zero_shifts * [count = 0]: the value the model gives a roster is
\* the sum of the other penalty terms plus penalty_zero_shifts for each user
\* the roster leaves without an assignment.
C25_ZeroShiftTerm ==
    (pc = "model" /\ variant = "full") =>
        \A sol \in cp :
            sol.obj = build_all_penalties(ctx, sol.x) + _add_zero_shifts_penalty(ctx, sol.x)

\* slots of the request in the 7-day window w counted from the period start
PeriodBucket(w) ==
    {s \in ReqSlots : FloorDiv(request.slots[s].date - request.period_start, 7) = w}

PeriodBuckets ==
    {FloorDiv(request.slots[s].date - request.period_start, 7) : s \in ReqSlots}

\* number of slots beyond two, summed over users and period buckets
PeriodClusterExcess(x) ==
    SumFn([p \in ReqUsers \X PeriodBuckets |->
        Max2(CountIn(x, p[1], PeriodBucket(p[2])) - 2, 0)])

\* C26: in both variants the weekly-clustering term of the objective is the
\* weekly weight times, for every user and every 7-day window counted from
\* the period's start date, the number of the user's slots in the window
\* beyond two, also when the earliest slot is dated after the period start.
C26_WeeksFromPeriodStart ==
    pc = "model" =>
        \A sol \in cp :
            IF variant = "full"
            THEN _add_weekly_clustering_penalty(ctx, sol.x)
                    = penalty_weekly_clustering * PeriodClusterExcess(sol.x)
            ELSE SeniorWeeklyClusteringPenalty(ctx, sol.x)
                    = PENALTY_WEEKLY_CLUSTER * PeriodClusterExcess(sol.x)

\* the dates on which user u holds a slot of type t in roster x
TypeDates(x, u, t) ==
    {request.slots[s].date : s \in {r \in ReqSlots : request.slots[r].duty_type = t /\ u \in x[r]}}

\* (user, duty type, first date) of three consecutive calendar dates on each
\* of which the user holds a slot of that type
SameTypeRuns(x) ==
    {w \in ReqUsers \X DutyTypes \X {request.slots[s].date : s \in ReqSlots} :
        {w[3], w[3] + 1, w[3] + 2} \subseteq TypeDates(x, w[1], w[2])}

\* the dates on which user u holds any slot in roster x
HeldDates(x, u) == {request.slots[s].date : s \in {r \in ReqSlots : u \in x[r]}}

\* C27: the objective of the full variant contains penalty_consecutive_days
\* once for each user, duty type t and three consecutive calendar dates on
\* each of which the user holds a slot of type t, and nothing else of Tier 2:
\* three consecutive dates worked with different types cost nothing, and slot
\* dates that are adjacent in date order but not consecutive days form no
\* window.
C27_SameTypeThreeDays ==
    (pc = "model" /\ variant = "full") =>
        \A sol \in cp :
            /\ _add_consecutive_days_penalty(ctx, sol.x)
                  = penalty_consecutive_days * Cardinality(SameTypeRuns(sol.x))
            /\ (\A u \in ReqUsers : \A d \in HeldDates(sol.x, u) :
                    ~({d, d + 1, d + 2} \subseteq HeldDates(sol.x, u)))
                  => _add_consecutive_days_penalty(ctx, sol.x) = 0

\* a roster in which one user holds A slots on dates 1, 2 and 3 and pays the
\* penalty once
C27_Witness ==
    /\ pc = "model"
    /\ variant = "full"
    /\ \E sol \in cp : \E u \in ReqUsers :
          /\ {1, 2, 3} \subseteq TypeDates(sol.x, u, "A")
          /\ _add_consecutive_days_penalty(ctx, sol.x) = penalty_consecutive_days

\* the historical DESK count that the request supplies for user u
SuppliedHistoryDesk(u) ==
    IF "historyDesk" \in DOMAIN request.users[u] THEN request.users[u].historyDesk ELSE 0

\* C28: DESK selection uses the historical DESK counts supplied with the
\* request: in the first A slot the role assigner processes (all current
\* counts still 0), no assignee that receives DESK has a larger historical
\* DESK count than an assignee of the same slot that does not.
C28_DeskByHistory ==
    (Successful /\ variant = "full") =>
        \A s \in ReqSlots :
            (/\ request.slots[s].duty_type = "A"
             /\ \A r \in 1..(s - 1) : request.slots[r].duty_type # "A")
            => \A i \in WithRole(s, "DESK") : \A j \in OfSlot(s) \ WithRole(s, "DESK") :
                  SuppliedHistoryDesk(response.assignments[i].userId)
                      <= SuppliedHistoryDesk(response.assignments[j].userId)

\* the A slots of the request in which user u holds a seat, and u's roles
ASlotsOf(u) ==
    {response.assignments[i].slotId : i \in {j \in OfUser(u) : SlotOf(j).duty_type = "A"}}

RoleCount(u, role) ==
    Cardinality({i \in OfUser(u) : response.assignments[i].seatRole = role})

\* C29: after role assignment any two users with equal historical DESK
\* counts who hold seats in exactly the same A slots have DESK counts, and
\* OPERATOR counts, that differ by at most 1, and every user has as many
\* DESK plus OPERATOR roles as A-slot assignments.
C29_RoleBalance ==
    (Successful /\ variant = "full") =>
        /\ \A u \in ReqUsers :
              RoleCount(u, "DESK") + RoleCount(u, "OPERATOR") = Cardinality(ASlotsOf(u))
        /\ \A u, v \in ReqUsers :
              (u < v /\ ASlotsOf(u) = ASlotsOf(v) /\ history_desk(ctx, u) = history_desk(ctx, v))
              => /\ Abs(RoleCount(u, "DESK") - RoleCount(v, "DESK")) <= 1
                 /\ Abs(RoleCount(u, "OPERATOR") - RoleCount(v, "OPERATOR")) <= 1

\* two users who shared three A slots and took DESK in turn
C29_Witness ==
    /\ Successful
    /\ variant = "full"
    /\ \E u, v \in ReqUsers :
          /\ u # v
          /\ ASlotsOf(u) = ASlotsOf(v)
          /\ Cardinality(ASlotsOf(u)) >= 3
          /\ RoleCount(u, "DESK") >= 1
          /\ RoleCount(v, "DESK") >= 1
          /\ RoleCount(u, "DESK") + RoleCount(u, "OPERATOR") = Cardinality(ASlotsOf(u))

\* the response's assignments that the request declared unavailable
IgnoredUnavailability ==
    {i \in 1..Len(response.assignments) :
        <<response.assignments[i].userId, response.assignments[i].slotId>>
            \in request.unavailability}

CountsOf == {Cardinality(OfUser(u)) : u \in ReqUsers}

\* C30: in every successful response meta agrees with the assignment list:
\* totalAssignments is the sum of the seats of all slots and the sum of the
\* users' counts; maxShifts and minShifts are the largest and smallest count
\* over all users of the request, unassigned users counting 0, with
\* minShifts <= base <= maxShifts; unavailabilityViolations is the number of
\* assignments the request declared unavailable, and the unavailability
\* warning is present exactly when that number is positive.
C30_MetaConsistent ==
    Successful =>
        /\ response.meta.totalAssignments = Len(response.assignments)
        /\ response.meta.totalAssignments = total_seats(request.slots)
        /\ response.meta.totalAssignments
              = SumFn([u \in ReqUsers |-> Cardinality(OfUser(u))])
        /\ response.meta.maxShifts = MaxOf(CountsOf)
        /\ response.meta.minShifts = MinOf(CountsOf)
        /\ response.meta.minShifts <= response.meta.base
        /\ response.meta.base <= response.meta.maxShifts
        /\ response.meta.unavailabilityViolations = Cardinality(IgnoredUnavailability)
        /\ (\E k \in 1..Len(response.meta.warnings) :
                response.meta.warnings[k].kind = "unavailability")
              <=> Cardinality(IgnoredUnavailability) > 0

\* a successful response with an ignored unavailability and a user that holds
\* fewer assignments than another
C30_Witness ==
    /\ Successful
    /\ response.meta.unavailabilityViolations >= 1
    /\ response.meta.minShifts < response.meta.maxShifts
    /\ \E u \in ReqUsers : OfUser(u) = {}
=============================================================================
